---- MODULE Spec2Model ----
(***************************************************************************)
(* Case assembly of sharpy/utils/generate_cases.py: the builders of a      *)
(* StructuralInformation / AerodynamicInformation pair, their merge        *)
(* (assembly), the removal of duplicated points and the two validators.    *)
(*                                                                         *)
(* Reading of the source.  The statements are modelled with the meaning    *)
(* Python and numpy give them, in the order in which they are executed:    *)
(* a statement that raises ends the method at that statement, and what the *)
(* earlier statements of the method assigned stays assigned.               *)
(*  - Line 1082 of generate_cases.py ends in a stray ':' which makes the   *)
(*    file unparsable as it stands; the statement is read without it.      *)
(*  - An attribute that no method of the class assigns (num_nodes,         *)
(*    num_airfoils, num_surfaces, aerodynamic_twist) exists only when the  *)
(*    caller assigned it (as tests/utils/generate_cases_test.py assigns    *)
(*    num_node and num_node_elem); reading it otherwise raises             *)
(*    AttributeError.  Both situations are part of the model.              *)
(*  - numpy arrays are sequences; node, element, database, airfoil and     *)
(*    surface indices keep their 0-based values, so index v designates     *)
(*    element v+1 of a sequence.  A 6x6 matrix, an inertia tensor and a    *)
(*    camber line are represented by the value that determines them.       *)
(*  - Coordinates are integer triples; norm(a-b) < tol is decided on the   *)
(*    squares.                                                             *)
(***************************************************************************)
EXTENDS Integers, Sequences, FiniteSets, TLC

\* ------------------------------------------------------------------ bounds
\* structures passed to one assembly call
MaxArgs == 2
\* elements of the longest generated beam
MaxElem == 2
\* largest tolerance passed to remove_duplicated_points
MaxTol == 2
\* node counts given to the builders
MaxNode == 6
\* nodes per element given to the builders (at least 2)
MaxNodeElem == 4
\* builder calls on one StructuralInformation
MaxCalls == 3
\* quarter turns of the angle given to rotate_around_origin
MaxQuarter == 3
\* largest chord given to create_one_uniform_aerodynamics
MaxChord == 2

\* ----------------------------------------------------- Python / numpy base
\* Python None, and an attribute that was never assigned; a value v that is
\* present is <<v>>.
None == <<>>
Absent == <<>>
Some(v) == <<v>>
IsSet(o) == Len(o) = 1
Val(o) == o[1]

\* Outcome of a method: normal return, or the exception raised and the line
\* of generate_cases.py that raised it.
Ok == [kind |-> "ok", line |-> 0]
NotRun == [kind |-> "not run", line |-> 0]
Raise(k, l) == [kind |-> k, line |-> l]
IsOk(st) == st.kind = "ok"

\* The value of a call or statement is bound once by x \in {value} and the
\* result taken by CHOOSE from the one-element set: sequential evaluation.

\* numpy: a.shape[0], a.shape[1] (arrays of the model have at least one row
\* whenever shape[1] is asked for).
Shape0(a) == Len(a)
Shape1(a) == IF Len(a) = 0 THEN 0 ELSE Len(a[1])

\* numpy: a + k for a 1-D and a 2-D integer array
AddTo1(a, k) == [i \in 1..Len(a) |-> a[i] + k]
AddTo2(a, k) == [i \in 1..Len(a) |-> [j \in 1..Len(a[i]) |-> a[i][j] + k]]

\* numpy: np.zeros / np.ones style fills
Fill1(n, v) == [i \in 1..n |-> v]
Fill2(n, m, v) == [i \in 1..n |-> [j \in 1..m |-> v]]

\* Python: max(a) of a non-empty integer array
MaxOf(a) == CHOOSE m \in {a[i] : i \in 1..Len(a)} : \A i \in 1..Len(a) : a[i] <= m

\* squared Euclidean distance of two coordinate triples
Dist2(p, q) ==
  (p[1] - q[1]) * (p[1] - q[1]) + (p[2] - q[2]) * (p[2] - q[2])
    + (p[3] - q[3]) * (p[3] - q[3])

\* ------------------------------------------------ StructuralInformation
\* StructuralInformation.set_to_zero; nm, ns and nl are its arguments
\* num_mass_db, num_stiffness_db and num_lumped_mass.
set_to_zero(num_node_elem, num_node, num_elem, nm, ns, nl) ==
  [ num_node_elem |-> num_node_elem,
    num_node |-> num_node,
    num_elem |-> num_elem,
    coordinates |-> Fill1(num_node, <<0, 0, 0>>),
    connectivities |-> Fill2(num_elem, num_node_elem, 0),
    elem_stiffness |-> Fill1(num_elem, 0),
    stiffness_db |-> Fill1(ns, 0),
    elem_mass |-> Fill1(num_elem, 0),
    mass_db |-> Fill1(nm, 0),
    frame_of_reference_delta |-> Fill2(num_elem, num_node_elem, <<0, 0, 0>>),
    structural_twist |-> Fill1(num_node, 0),
    boundary_conditions |-> Fill1(num_node, 0),
    beam_number |-> Fill1(num_elem, 0),
    app_forces |-> Fill2(num_node, 6, 0),
    lumped_mass_nodes |-> IF nl = 0 THEN None ELSE Some(Fill1(nl, 0)),
    lumped_mass |-> IF nl = 0 THEN None ELSE Some(Fill1(nl, 0)),
    lumped_mass_inertia |-> IF nl = 0 THEN None ELSE Some(Fill1(nl, 0)),
    lumped_mass_position |->
      IF nl = 0 THEN None ELSE Some(Fill1(nl, <<0, 0, 0>>)) ]

\* StructuralInformation.compute_basic_num_elem, for a divisible node count
compute_basic_num_elem(num_node, num_node_elem) ==
  (num_node - 1) \div (num_node_elem - 1)

\* line 384 with the nodes of an element in their order along the beam
create_sorted_connectivities(num_elem, num_node_elem) ==
  [ielem \in 1..num_elem |->
     AddTo1(<<0, 1, 2>>, (ielem - 1) * (num_node_elem - 1))]

\* StructuralInformation.create_simple_connectivities
create_simple_connectivities(num_elem, num_node_elem) ==
  [ielem \in 1..num_elem |->
     AddTo1(<<0, 2, 1>>, (ielem - 1) * (num_node_elem - 1))]

\* StructuralInformation.create_frame_of_reference_delta, recognised keyword
create_frame_of_reference_delta(num_elem, num_node_elem, y_BFoR) ==
  LET yB == IF y_BFoR = "x_AFoR" THEN <<1, 0, 0>>
            ELSE IF y_BFoR = "y_AFoR" THEN <<0, 1, 0>>
            ELSE <<0, 0, 1>>
  IN Fill2(num_elem, num_node_elem, yB)

\* StructuralInformation.generate_uniform_beam for an odd number of node
\* positions (lines 460-489); mass and stiff stand for the one mass and the
\* one stiffness matrix that the section properties determine.
generate_uniform_beam(node_pos, mass, stiff, num_node_elem, y_BFoR, nl) ==
  LET num_node == Len(node_pos)
      num_elem == compute_basic_num_elem(num_node, num_node_elem)
      z == set_to_zero(num_node_elem, num_node, num_elem, 1, 1, nl)
  IN [z EXCEPT
        !.coordinates = node_pos,
        !.connectivities = create_simple_connectivities(num_elem, num_node_elem),
        !.mass_db = <<mass>>,
        !.stiffness_db = <<stiff>>,
        !.frame_of_reference_delta =
           create_frame_of_reference_delta(num_elem, num_node_elem, y_BFoR)]

\* The caller's assignments to the one lumped mass of a generated beam
\* (generate_cases_test.py lines 36-39).
set_lumped_mass(self, node, mass, inertia) ==
  [self EXCEPT !.lumped_mass_nodes = Some(<<node>>),
               !.lumped_mass = Some(<<mass>>),
               !.lumped_mass_inertia = Some(<<inertia>>),
               !.lumped_mass_position = Some(<< <<0, 0, 0>> >>)]

\* ------------------------------------- StructuralInformation.assembly_structures
\* The running totals of lines 508-512.
initial_totals(self) ==
  [ beam |-> MaxOf(self.beam_number) + 1,
    node |-> self.num_node,
    elem |-> self.num_elem,
    stiff |-> Shape0(self.stiffness_db),
    mass |-> Shape0(self.mass_db) ]

\* np.concatenate(axis=0) of two 2-D arrays raises ValueError unless their
\* other dimensions agree.
SameColumns(a, b) == Shape1(a) = Shape1(b)

\* The statements of the loop body, lines 515-538.  Each takes the loop state
\* st = [self, tot, status, failed_at] and the structure to add, and gives
\* the next loop state.

\* line 515
add_coordinates(st, s) ==
  [st EXCEPT !.self.coordinates = @ \o s.coordinates]

\* line 516 with the offset of line 519's kind: the elements so far
add_connectivities_by_elem(st, s) ==
  IF ~SameColumns(st.self.connectivities, s.connectivities)
  THEN [st EXCEPT !.status = Raise("ValueError", 516)]
  ELSE [st EXCEPT !.self.connectivities =
                     @ \o AddTo2(s.connectivities, st.tot.elem)]

\* line 516
add_connectivities(st, s) ==
  IF ~SameColumns(st.self.connectivities, s.connectivities)
  THEN [st EXCEPT !.status = Raise("ValueError", 516)]
  ELSE [st EXCEPT !.self.connectivities =
                     @ \o AddTo2(s.connectivities, st.tot.node)]

\* line 517
assert_num_node_elem(st, s) ==
  IF st.self.num_node_elem = s.num_node_elem THEN st
  ELSE [st EXCEPT !.status = Raise("AssertionError", 517)]

\* line 518
add_stiffness_db(st, s) ==
  [st EXCEPT !.self.stiffness_db = @ \o s.stiffness_db]

\* line 519 with the offset of line 516
add_elem_stiffness_by_node(st, s) ==
  [st EXCEPT !.self.elem_stiffness = @ \o AddTo1(s.elem_stiffness, st.tot.node)]

\* line 519
add_elem_stiffness(st, s) ==
  [st EXCEPT !.self.elem_stiffness = @ \o AddTo1(s.elem_stiffness, st.tot.stiff)]

\* line 520
add_mass_db(st, s) ==
  [st EXCEPT !.self.mass_db = @ \o s.mass_db]

\* line 521
add_elem_mass(st, s) ==
  [st EXCEPT !.self.elem_mass = @ \o AddTo1(s.elem_mass, st.tot.mass)]

\* line 522
add_frame_of_reference_delta(st, s) ==
  IF ~SameColumns(st.self.frame_of_reference_delta, s.frame_of_reference_delta)
  THEN [st EXCEPT !.status = Raise("ValueError", 522)]
  ELSE [st EXCEPT !.self.frame_of_reference_delta =
                     @ \o s.frame_of_reference_delta]

\* line 523
add_structural_twist(st, s) ==
  [st EXCEPT !.self.structural_twist = @ \o s.structural_twist]

\* line 524
add_boundary_conditions(st, s) ==
  [st EXCEPT !.self.boundary_conditions = @ \o s.boundary_conditions]

\* line 525
add_beam_number(st, s) ==
  [st EXCEPT !.self.beam_number = @ \o AddTo1(s.beam_number, st.tot.beam)]

\* line 526
add_app_forces(st, s) ==
  IF ~SameColumns(st.self.app_forces, s.app_forces)
  THEN [st EXCEPT !.status = Raise("ValueError", 526)]
  ELSE [st EXCEPT !.self.app_forces = @ \o s.app_forces]

\* lines 528-532.  "not self.lumped_mass_nodes == None": for None the
\* comparison is True and the branch is skipped; for an array the comparison
\* is element-wise, so "not" is True for one element and raises ValueError
\* for more than one.  Inside the branch None + int raises TypeError.
add_lumped_masses(st, s) ==
  IF ~IsSet(st.self.lumped_mass_nodes) THEN st
  ELSE IF Len(Val(st.self.lumped_mass_nodes)) > 1
  THEN [st EXCEPT !.status = Raise("ValueError", 528)]
  ELSE IF ~IsSet(s.lumped_mass_nodes)
  THEN [st EXCEPT !.status = Raise("TypeError", 529)]
  ELSE [st EXCEPT
          !.self.lumped_mass_nodes =
             Some(Val(@) \o AddTo1(Val(s.lumped_mass_nodes), st.tot.node)),
          !.self.lumped_mass =
             Some(Val(@) \o AddTo1(Val(s.lumped_mass),
                                   Len(Val(st.self.lumped_mass_position)))),
          !.self.lumped_mass_inertia = Some(Val(@) \o Val(s.lumped_mass_inertia)),
          !.self.lumped_mass_position =
             Some(Val(@) \o Val(s.lumped_mass_position))]

\* line 534
count_stiff(st, s) ==
  [st EXCEPT !.tot.stiff = @ + Shape0(s.stiffness_db)]

\* line 535
count_mass(st, s) ==
  [st EXCEPT !.tot.mass = @ + Shape0(s.mass_db)]

\* line 536
count_beam(st, s) ==
  [st EXCEPT !.tot.beam = @ + MaxOf(s.beam_number)]

\* line 537 as it would be if an end node shared by two structures were
\* counted once
count_node_shared(st, s) ==
  [st EXCEPT !.tot.node = @ + s.num_node - 1]

\* line 537
count_node(st, s) ==
  [st EXCEPT !.tot.node = @ + s.num_node]

\* line 538
count_elem(st, s) ==
  [st EXCEPT !.tot.elem = @ + s.num_elem]

\* The loop body as it would be if line 516 joined the rows whatever their
\* length and line 517 asserted nothing.
structure_statement_unchecked(i, st, s) ==
  CASE i = 1 -> add_coordinates(st, s)
    [] i = 2 -> [st EXCEPT !.self.connectivities =
                              @ \o AddTo2(s.connectivities, st.tot.node)]
    [] i = 3 -> st
    [] i = 4 -> add_stiffness_db(st, s)
    [] i = 5 -> add_elem_stiffness(st, s)
    [] i = 6 -> add_mass_db(st, s)
    [] i = 7 -> add_elem_mass(st, s)
    [] i = 8 -> [st EXCEPT !.self.frame_of_reference_delta =
                              @ \o s.frame_of_reference_delta]
    [] i = 9 -> add_structural_twist(st, s)
    [] i = 10 -> add_boundary_conditions(st, s)
    [] i = 11 -> add_beam_number(st, s)
    [] i = 12 -> add_app_forces(st, s)
    [] i = 13 -> add_lumped_masses(st, s)
    [] i = 14 -> count_stiff(st, s)
    [] i = 15 -> count_mass(st, s)
    [] i = 16 -> count_beam(st, s)
    [] i = 17 -> count_node(st, s)
    [] OTHER -> count_elem(st, s)

\* The i-th statement of the loop body.
structure_statement(i, st, s) ==
  CASE i = 1 -> add_coordinates(st, s)
    [] i = 2 -> add_connectivities(st, s)
    [] i = 3 -> assert_num_node_elem(st, s)
    [] i = 4 -> add_stiffness_db(st, s)
    [] i = 5 -> add_elem_stiffness(st, s)
    [] i = 6 -> add_mass_db(st, s)
    [] i = 7 -> add_elem_mass(st, s)
    [] i = 8 -> add_frame_of_reference_delta(st, s)
    [] i = 9 -> add_structural_twist(st, s)
    [] i = 10 -> add_boundary_conditions(st, s)
    [] i = 11 -> add_beam_number(st, s)
    [] i = 12 -> add_app_forces(st, s)
    [] i = 13 -> add_lumped_masses(st, s)
    [] i = 14 -> count_stiff(st, s)
    [] i = 15 -> count_mass(st, s)
    [] i = 16 -> count_beam(st, s)
    [] i = 17 -> count_node(st, s)
    [] OTHER -> count_elem(st, s)

\* One pass of the loop of line 514 for structure_to_add = s, from its i-th
\* statement on: the statements in order, up to the first that raises.
RECURSIVE add_structure(_, _, _)
add_structure(i, st, s) ==
  IF i > 18 \/ ~IsOk(st.status) THEN st
  ELSE CHOOSE r \in {add_structure(i + 1, nxt, s) :
                         nxt \in {structure_statement(i, st, s)}} : TRUE

\* The loop of line 514 over args[k..]; failed_at is the position in args
\* of the structure whose pass raised (0: none).
RECURSIVE structures_loop(_, _, _)
structures_loop(st, args, k) ==
  IF k > Len(args) THEN st
  ELSE CHOOSE r \in {IF IsOk(nxt.status)
                      THEN structures_loop(nxt, args, k + 1)
                      ELSE [nxt EXCEPT !.failed_at = k] :
                         nxt \in {add_structure(1, st, args[k])}} : TRUE

\* lines 540-541
set_counts(st) ==
  [st EXCEPT !.self.num_node = st.tot.node, !.self.num_elem = st.tot.elem]

\* StructuralInformation.assembly_structures(self, *args): the merged (or,
\* after a raise, partly merged) self, the outcome, and failed_at.
assembly_structures(self, args) ==
  CHOOSE r \in {IF IsOk(st.status) THEN set_counts(st) ELSE st :
                   st \in {structures_loop([self |-> self,
                                            tot |-> initial_totals(self),
                                            status |-> Ok, failed_at |-> 0],
                                           args, 1)}} : TRUE

\* ------------------------------------------------ AerodynamicInformation
\* AerodynamicInformation.set_to_zero with num_surfaces = 0; npc is its
\* argument num_points_camber.  num_airfoils, num_surfaces and
\* aerodynamic_twist are attributes the methods read and no builder assigns.
aero_set_to_zero(num_node_elem, num_node, num_elem, num_airfoils, npc) ==
  [ aero_node |-> Fill1(num_node, FALSE),
    chord |-> Fill2(num_elem, num_node_elem, 0),
    twist |-> Fill2(num_elem, num_node_elem, 0),
    sweep |-> Fill2(num_elem, num_node_elem, 0),
    surface_m |-> <<>>,
    surface_distribution |-> Fill1(num_elem, 0 - 1),
    m_distribution |-> "uniform",
    elastic_axis |-> Fill2(num_elem, num_node_elem, 0),
    airfoil_distribution |-> Fill2(num_elem, num_node_elem, 0),
    airfoils |-> Fill2(num_airfoils, npc, 0),
    num_airfoils |-> Absent,
    num_surfaces |-> Absent,
    aerodynamic_twist |-> Absent ]

\* AerodynamicInformation.create_one_uniform_aerodynamics (lines 811-825) on
\* self for a StructuralInformation of the given counts.  Lines 815-823 assign
\* the arrays; line 824 reads num_points_camber, a name that is neither an
\* argument nor a global (NameError), so airfoils is not replaced and line 825
\* is not reached.
create_one_uniform_aerodynamics(self, num_node, num_node_elem, num_elem, chord, twist, sweep, m_distribution, elastic_axis) ==
  [self |-> [self EXCEPT
               !.aero_node = Fill1(num_node, TRUE),
               !.chord = Fill2(num_elem, num_node_elem, chord),
               !.twist = Fill2(num_elem, num_node_elem, twist),
               !.sweep = Fill2(num_elem, num_node_elem, sweep),
               !.surface_m = <<0>>,
               !.surface_distribution = Fill1(num_elem, 0 - 1),
               !.m_distribution = m_distribution,
               !.elastic_axis = Fill2(num_elem, num_node_elem, elastic_axis),
               !.airfoil_distribution = Fill2(num_elem, num_node_elem, 1)],
   status |-> Raise("NameError", 824)]

\* The caller's assignment of the three attributes, from the arrays they
\* describe.
declare_aero_attributes(self) ==
  [self EXCEPT !.num_airfoils = Some(Shape0(self.airfoils)),
               !.num_surfaces = Some(Shape0(self.surface_m)),
               !.aerodynamic_twist = Some(self.twist)]

\* ------------------------------- AerodynamicInformation.assembly_aerodynamics
\* The statements of the loop body, lines 842-855, on the loop state
\* st = [self, tot, status] and the aerodynamics to add.

\* line 842
add_chord(st, a) ==
  IF ~SameColumns(st.self.chord, a.chord)
  THEN [st EXCEPT !.status = Raise("ValueError", 842)]
  ELSE [st EXCEPT !.self.chord = @ \o a.chord]

\* line 843
add_aerodynamic_twist(st, a) ==
  IF ~IsSet(st.self.aerodynamic_twist) \/ ~IsSet(a.aerodynamic_twist)
  THEN [st EXCEPT !.status = Raise("AttributeError", 843)]
  ELSE IF ~SameColumns(Val(st.self.aerodynamic_twist), Val(a.aerodynamic_twist))
  THEN [st EXCEPT !.status = Raise("ValueError", 843)]
  ELSE [st EXCEPT !.self.aerodynamic_twist =
                     Some(Val(@) \o Val(a.aerodynamic_twist))]

\* line 844
add_surface_m(st, a) ==
  [st EXCEPT !.self.surface_m = @ \o a.surface_m]

\* line 846 as it would be without the assertion
assert_m_distribution_skipped(st, a) == st

\* line 846
assert_m_distribution(st, a) ==
  IF st.self.m_distribution = a.m_distribution THEN st
  ELSE [st EXCEPT !.status = Raise("AssertionError", 846)]

\* line 847
add_surface_distribution(st, a) ==
  [st EXCEPT !.self.surface_distribution =
                @ \o AddTo1(a.surface_distribution, st.tot.surfaces)]

\* line 848
add_aero_node(st, a) ==
  [st EXCEPT !.self.aero_node = @ \o a.aero_node]

\* line 849
add_elastic_axis(st, a) ==
  IF ~SameColumns(st.self.elastic_axis, a.elastic_axis)
  THEN [st EXCEPT !.status = Raise("ValueError", 849)]
  ELSE [st EXCEPT !.self.elastic_axis = @ \o a.elastic_axis]

\* line 851 as the commented-out line 850 has it, without the offset
add_airfoil_distribution_unshifted(st, a) ==
  IF ~SameColumns(st.self.airfoil_distribution, a.airfoil_distribution)
  THEN [st EXCEPT !.status = Raise("ValueError", 851)]
  ELSE [st EXCEPT !.self.airfoil_distribution = @ \o a.airfoil_distribution]

\* line 851
add_airfoil_distribution(st, a) ==
  IF ~SameColumns(st.self.airfoil_distribution, a.airfoil_distribution)
  THEN [st EXCEPT !.status = Raise("ValueError", 851)]
  ELSE [st EXCEPT !.self.airfoil_distribution =
                     @ \o AddTo2(a.airfoil_distribution, st.tot.airfoils)]

\* line 852
add_airfoils(st, a) ==
  IF ~SameColumns(st.self.airfoils, a.airfoils)
  THEN [st EXCEPT !.status = Raise("ValueError", 852)]
  ELSE [st EXCEPT !.self.airfoils = @ \o a.airfoils]

\* line 854
count_airfoils(st, a) ==
  IF ~IsSet(a.num_airfoils)
  THEN [st EXCEPT !.status = Raise("AttributeError", 854)]
  ELSE [st EXCEPT !.tot.airfoils = @ + Val(a.num_airfoils)]

\* line 855
count_surfaces(st, a) ==
  IF ~IsSet(a.num_surfaces)
  THEN [st EXCEPT !.status = Raise("AttributeError", 855)]
  ELSE [st EXCEPT !.tot.surfaces = @ + Val(a.num_surfaces)]

\* The i-th statement of the loop body.
aerodynamics_statement(i, st, a) ==
  CASE i = 1 -> add_chord(st, a)
    [] i = 2 -> add_aerodynamic_twist(st, a)
    [] i = 3 -> add_surface_m(st, a)
    [] i = 4 -> assert_m_distribution(st, a)
    [] i = 5 -> add_surface_distribution(st, a)
    [] i = 6 -> add_aero_node(st, a)
    [] i = 7 -> add_elastic_axis(st, a)
    [] i = 8 -> add_airfoil_distribution(st, a)
    [] i = 9 -> add_airfoils(st, a)
    [] i = 10 -> count_airfoils(st, a)
    [] OTHER -> count_surfaces(st, a)

\* One pass of the loop of line 841 for aerodynamics_to_add = a, from its
\* i-th statement on.
RECURSIVE add_aerodynamics(_, _, _)
add_aerodynamics(i, st, a) ==
  IF i > 11 \/ ~IsOk(st.status) THEN st
  ELSE CHOOSE r \in {add_aerodynamics(i + 1, nxt, a) :
                         nxt \in {aerodynamics_statement(i, st, a)}} : TRUE

\* The loop of line 841 over args[k..].
RECURSIVE aerodynamics_loop(_, _, _)
aerodynamics_loop(st, args, k) ==
  IF k > Len(args) THEN st
  ELSE CHOOSE r \in {IF IsOk(nxt.status)
                      THEN aerodynamics_loop(nxt, args, k + 1)
                      ELSE [nxt EXCEPT !.failed_at = k] :
                         nxt \in {add_aerodynamics(1, st, args[k])}} : TRUE

\* lines 857-858
set_aero_counts(st) ==
  [st EXCEPT !.self.num_airfoils = Some(st.tot.airfoils),
             !.self.num_surfaces = Some(st.tot.surfaces)]

\* AerodynamicInformation.assembly_aerodynamics(self, *args); lines 837 and
\* 838 read attributes of self that may not exist.
assembly_aerodynamics(self, args) ==
  IF ~IsSet(self.num_airfoils)
  THEN [self |-> self, tot |-> [airfoils |-> 0, surfaces |-> 0],
        status |-> Raise("AttributeError", 837), failed_at |-> 0]
  ELSE IF ~IsSet(self.num_surfaces)
  THEN [self |-> self, tot |-> [airfoils |-> 0, surfaces |-> 0],
        status |-> Raise("AttributeError", 838), failed_at |-> 0]
  ELSE CHOOSE r \in {IF IsOk(st.status) THEN set_aero_counts(st) ELSE st :
                        st \in {aerodynamics_loop(
                                   [self |-> self,
                                    tot |-> [airfoils |-> Val(self.num_airfoils),
                                             surfaces |-> Val(self.num_surfaces)],
                                    status |-> Ok, failed_at |-> 0],
                                   args, 1)}} : TRUE

\* ------------------------------------------------- AeroelasticInformation
\* The structures and the aerodynamics of a list of AeroelasticInformation
\* (lines 1001-1006).
list_of_SI(args) == [k \in 1..Len(args) |-> args[k].StructuralInformation]
list_of_AI(args) == [k \in 1..Len(args) |-> args[k].AerodynamicInformation]

\* AeroelasticInformation.assembly(self, *args), lines 1008-1009: the
\* aerodynamic merge runs only when the structural merge returned.
assembly(self, args) ==
  CHOOSE r \in
    {IF ~IsOk(s.status)
     THEN [StructuralInformation |-> s.self,
           AerodynamicInformation |-> self.AerodynamicInformation,
           structures |-> s.status, aerodynamics |-> NotRun,
           failed_at |-> s.failed_at]
     ELSE CHOOSE q \in
            {[StructuralInformation |-> s.self,
              AerodynamicInformation |-> a.self,
              structures |-> s.status, aerodynamics |-> a.status,
              failed_at |-> a.failed_at] :
                a \in {assembly_aerodynamics(self.AerodynamicInformation,
                                             list_of_AI(args))}} : TRUE :
        s \in {assembly_structures(self.StructuralInformation,
                                   list_of_SI(args))}} : TRUE

\* --------------------------------------------------------- the validators
\* check_StructuralInformation as it would be without the test of line 572
check_StructuralInformation_any_width(self) ==
  IF Shape0(self.elem_stiffness) # self.num_elem THEN Raise("SystemExit", 555)
  ELSE IF Shape0(self.elem_mass) # self.num_elem THEN Raise("SystemExit", 557)
  ELSE IF Shape0(self.frame_of_reference_delta) # self.num_elem
  THEN Raise("SystemExit", 559)
  ELSE IF Shape1(self.frame_of_reference_delta) # self.num_node_elem
  THEN Raise("SystemExit", 561)
  ELSE IF Len(self.frame_of_reference_delta[1][1]) # 3
  THEN Raise("SystemExit", 563)
  ELSE IF Shape0(self.structural_twist) # self.num_node
  THEN Raise("SystemExit", 565)
  ELSE IF Shape0(self.boundary_conditions) # self.num_node
  THEN Raise("SystemExit", 567)
  ELSE IF Shape0(self.beam_number) # self.num_elem THEN Raise("SystemExit", 569)
  ELSE IF Shape0(self.app_forces) # self.num_node THEN Raise("SystemExit", 571)
  ELSE Ok

\* StructuralInformation.check_StructuralInformation: the first test that
\* fails ends the program through sys.exit (the line of that sys.exit).
check_StructuralInformation(self) ==
  IF Shape0(self.elem_stiffness) # self.num_elem THEN Raise("SystemExit", 555)
  ELSE IF Shape0(self.elem_mass) # self.num_elem THEN Raise("SystemExit", 557)
  ELSE IF Shape0(self.frame_of_reference_delta) # self.num_elem
  THEN Raise("SystemExit", 559)
  ELSE IF Shape1(self.frame_of_reference_delta) # self.num_node_elem
  THEN Raise("SystemExit", 561)
  ELSE IF Len(self.frame_of_reference_delta[1][1]) # 3
  THEN Raise("SystemExit", 563)
  ELSE IF Shape0(self.structural_twist) # self.num_node
  THEN Raise("SystemExit", 565)
  ELSE IF Shape0(self.boundary_conditions) # self.num_node
  THEN Raise("SystemExit", 567)
  ELSE IF Shape0(self.beam_number) # self.num_elem THEN Raise("SystemExit", 569)
  ELSE IF Shape0(self.app_forces) # self.num_node THEN Raise("SystemExit", 571)
  ELSE IF Shape1(self.app_forces) # 6 THEN Raise("SystemExit", 573)
  ELSE Ok

\* The message of each sys.exit of the two validators.
exit_message(line) ==
  CASE line = 555 -> "ERROR: Element stiffness must be defined for each element"
    [] line = 557 -> "ERROR: Element mass must be defined for each element"
    [] line = 559 -> "ERROR: The first dimension of FoR does not match the number of elements"
    [] line = 561 -> "ERROR: The second dimension of FoR does not match the number of nodes element"
    [] line = 563 -> "ERROR: The third dimension of FoR must be 3"
    [] line = 565 -> "ERROR: The structural twist must be defined for each node"
    [] line = 567 -> "ERROR: The boundary conditions must be defined for each node"
    [] line = 569 -> "ERROR: The beam number must be defined for each element"
    [] line = 571 -> "ERROR: The first dimension of the applied forces matrix does not match the number of nodes"
    [] line = 573 -> "ERROR: The second dimension of the applied forces matrix must be 6"
    [] line = 909 -> "ERROR: Aero node must be defined for each node"
    [] line = 911 -> "ERROR: Airfoil distribution must be defined for each element/local node"
    [] line = 913 -> "ERROR: The first dimension of the chord matrix does not match the number of elements"
    [] line = 915 -> "ERROR: The second dimension of the chord matrix does not match the number of nodes per element"
    [] line = 917 -> "ERROR: The first dimension of the elastic axis matrix does not match the number of elements"
    [] line = 919 -> "ERROR: The second dimension of the elastic axis matrix does not match the number of nodes per element"
    [] line = 921 -> "ERROR: The surface distribution must be defined for each element"
    [] line = 923 -> "ERROR: The first dimension of the aerodynamic twist does not match the number of elements"
    [] line = 925 -> "ERROR: The second dimension of the aerodynamic twist does not match the number nodes per element"
    [] OTHER -> ""

\* AerodynamicInformation.check_AerodynamicInformation(self, SI); line 922
\* reads an attribute of self that may not exist.
check_AerodynamicInformation(self, SI) ==
  IF Shape0(self.aero_node) # SI.num_node THEN Raise("SystemExit", 909)
  ELSE IF Shape0(self.airfoil_distribution) # SI.num_elem
          \/ Shape1(self.airfoil_distribution) # SI.num_node_elem
  THEN Raise("SystemExit", 911)
  ELSE IF Shape0(self.chord) # SI.num_elem THEN Raise("SystemExit", 913)
  ELSE IF Shape1(self.chord) # SI.num_node_elem THEN Raise("SystemExit", 915)
  ELSE IF Shape0(self.elastic_axis) # SI.num_elem THEN Raise("SystemExit", 917)
  ELSE IF Shape1(self.elastic_axis) # SI.num_node_elem
  THEN Raise("SystemExit", 919)
  ELSE IF Shape0(self.surface_distribution) # SI.num_elem
  THEN Raise("SystemExit", 921)
  ELSE IF ~IsSet(self.aerodynamic_twist) THEN Raise("AttributeError", 922)
  ELSE IF Shape0(Val(self.aerodynamic_twist)) # SI.num_elem
  THEN Raise("SystemExit", 923)
  ELSE IF Shape1(Val(self.aerodynamic_twist)) # SI.num_node_elem
  THEN Raise("SystemExit", 925)
  ELSE Ok

\* ------------------------- AeroelasticInformation.remove_duplicated_points
\* line 1055 as it would be with the comparison turned round
is_close_flipped(coordinates, inode, iprev_node, tol) ==
  Dist2(coordinates[inode + 1], coordinates[iprev_node + 1]) > tol * tol

\* line 1055: norm(coordinates[inode] - coordinates[iprev_node]) < tol, for
\* tol >= 0
is_close(coordinates, inode, iprev_node, tol) ==
  Dist2(coordinates[inode + 1], coordinates[iprev_node + 1]) < tol * tol

\* lines 1053-1057 as they would be without the break: the last iprev_node
\* in range(inode) that is close, or -1
last_close(coordinates, inode, tol) ==
  LET close == {j \in 0..(inode - 1) : is_close(coordinates, inode, j, tol)}
  IN IF close = {} THEN 0 - 1
     ELSE CHOOSE j \in close : \A k \in close : j >= k

\* lines 1053-1057: iprev_node in range(inode) at which the for loop breaks,
\* or -1 when replace stays False.
first_close(coordinates, inode, tol) ==
  LET close == {j \in 0..(inode - 1) : is_close(coordinates, inode, j, tol)}
  IN IF close = {} THEN 0 - 1
     ELSE CHOOSE j \in close : \A k \in close : j <= k

\* np.delete(a, (i), axis=0) for a row i of a
DeleteRow(a, i) ==
  [k \in 1..(Len(a) - 1) |-> IF k <= i THEN a[k] ELSE a[k + 1]]

\* lines 1060-1067 as they would be if they addressed the arrays of
\* self.StructuralInformation: the row inode of each array is deleted, the
\* first array without such a row raising IndexError.
replace_node_in_structure(self, inode, iprev_node) ==
  LET s == self.StructuralInformation
  IN IF ~(inode < Len(s.elem_stiffness))
     THEN [self |-> [self EXCEPT !.StructuralInformation.coordinates =
                                    DeleteRow(@, inode)],
           status |-> Raise("IndexError", 1061)]
     ELSE [self |-> [self EXCEPT
                       !.StructuralInformation.coordinates = DeleteRow(@, inode),
                       !.StructuralInformation.elem_stiffness = DeleteRow(@, inode),
                       !.StructuralInformation.elem_mass = DeleteRow(@, inode),
                       !.StructuralInformation.structural_twist =
                          DeleteRow(@, inode),
                       !.StructuralInformation.boundary_conditions =
                          DeleteRow(@, inode),
                       !.StructuralInformation.beam_number = DeleteRow(@, inode),
                       !.StructuralInformation.app_forces = DeleteRow(@, inode),
                       !.StructuralInformation.frame_of_reference_delta =
                          DeleteRow(@, inode)],
           status |-> Raise("AttributeError", 1071)]

\* lines 1059-1084, the branch taken when replace is True.  Its first
\* statement reads self.coordinates; an AeroelasticInformation has the two
\* attributes StructuralInformation and AerodynamicInformation only (lines
\* 974-975), so the read raises and the case is as it was.
replace_node(self, inode, iprev_node) ==
  [self |-> self, status |-> Raise("AttributeError", 1060)]

\* One evaluation of the while condition of line 1051 and, if it holds, one
\* pass of the loop body (lines 1052-1086).  num_nodes is the attribute
\* self.StructuralInformation.num_nodes as the call finds it.
scan_node(self, num_nodes, inode, tol) ==
  LET coordinates == self.StructuralInformation.coordinates
      iprev_node == first_close(coordinates, inode, tol)
  IN IF ~IsSet(num_nodes)
     THEN [self |-> self, inode |-> inode, iprev_node |-> 0 - 1,
           running |-> FALSE, status |-> Raise("AttributeError", 1051)]
     ELSE IF ~(inode < Val(num_nodes))
     THEN [self |-> self, inode |-> inode, iprev_node |-> 0 - 1,
           running |-> FALSE, status |-> Ok]
     ELSE IF ~(inode < Shape0(coordinates))
     THEN [self |-> self, inode |-> inode, iprev_node |-> 0 - 1,
           running |-> FALSE, status |-> Raise("IndexError", 1055)]
     ELSE IF iprev_node >= 0
     THEN LET r == replace_node(self, inode, iprev_node)
          IN [self |-> r.self, inode |-> inode, iprev_node |-> iprev_node,
              running |-> IsOk(r.status), status |-> r.status]
     ELSE [self |-> self, inode |-> inode + 1, iprev_node |-> 0 - 1,
           running |-> TRUE, status |-> Ok]

\* ---------------------------------- the builders on one StructuralInformation
\* A StructuralInformation as __init__ leaves it (lines 124-141): the counts
\* are None; arrays holds the arrays once set_to_zero has made them.
new_StructuralInformation ==
  [num_node |-> None, num_node_elem |-> None, num_elem |-> None,
   arrays |-> None]

\* lines 413-416 with one element more than the quotient
num_elem_rounded_up(self) ==
  IF (Val(self.num_node) - 1) % (Val(self.num_node_elem) - 1) = 0
  THEN [self |-> [self EXCEPT !.num_elem =
                    Some((Val(self.num_node) - 1) \div (Val(self.num_node_elem) - 1)
                           + 1)],
        printed |-> "", status |-> Ok]
  ELSE [self |-> self,
        printed |-> "ERROR: number of nodes cannot be converted into 3-noded elements",
        status |-> Ok]

\* StructuralInformation.compute_basic_num_elem on self (lines 413-416): the
\* assignment when the division is exact, otherwise the print; the method
\* returns in both branches.
num_elem_of(self) ==
  IF (Val(self.num_node) - 1) % (Val(self.num_node_elem) - 1) = 0
  THEN [self |-> [self EXCEPT !.num_elem =
                    Some(compute_basic_num_elem(Val(self.num_node),
                                                Val(self.num_node_elem)))],
        printed |-> "", status |-> Ok]
  ELSE [self |-> self,
        printed |-> "ERROR: number of nodes cannot be converted into 3-noded elements",
        status |-> Ok]

\* StructuralInformation.generate_uniform_beam on self (lines 460-489) for
\* node_pos: the counts, compute_basic_num_elem, set_to_zero with
\* self.num_elem as it then is, the coordinates, the connectivities and the
\* frame of reference.  np.zeros with None for a dimension raises TypeError
\* (line 200; the coordinates of line 199 are not read again); a row of three
\* entries assigned to a row of another width raises ValueError (line 384).
generate_uniform_beam_on(self, node_pos, num_node_elem, y_BFoR) ==
  LET counted == [self EXCEPT !.num_node = Some(Len(node_pos)),
                              !.num_node_elem = Some(num_node_elem)]
      c == num_elem_of(counted)
      num_elem == Val(c.self.num_elem)
      zero == set_to_zero(num_node_elem, Len(node_pos), num_elem, 1, 1, 0)
  IN IF ~IsSet(c.self.num_elem)
     THEN [self |-> c.self, printed |-> c.printed,
           status |-> Raise("TypeError", 200)]
     ELSE IF num_elem > 0 /\ num_node_elem # 3
     THEN [self |-> [c.self EXCEPT !.arrays =
                       Some([zero EXCEPT !.coordinates = node_pos])],
           printed |-> c.printed, status |-> Raise("ValueError", 384)]
     ELSE [self |-> [c.self EXCEPT !.arrays =
                       Some([zero EXCEPT
                          !.coordinates = node_pos,
                          !.connectivities =
                             create_simple_connectivities(num_elem, num_node_elem),
                          !.frame_of_reference_delta =
                             create_frame_of_reference_delta(num_elem,
                                                             num_node_elem,
                                                             y_BFoR)])],
           printed |-> c.printed, status |-> Ok]

\* StructuralInformation.create_frame_of_reference_delta on self (lines
\* 299-310).  For a keyword that is none of the three, line 306 prints and yB
\* stays unbound: the array of line 307 is assigned, and the first pass of the
\* loop raises UnboundLocalError at line 310.
create_frame_of_reference_delta_on(self, y_BFoR) ==
  LET num_elem == Val(self.num_elem)
      num_node_elem == Val(self.num_node_elem)
      zeros == Fill2(num_elem, num_node_elem, <<0, 0, 0>>)
  IN IF y_BFoR \in {"x_AFoR", "y_AFoR", "z_AFoR"}
     THEN [self |-> [self EXCEPT !.arrays =
                       Some([Val(@) EXCEPT !.frame_of_reference_delta =
                               create_frame_of_reference_delta(
                                  num_elem, num_node_elem, y_BFoR)])],
           printed |-> "", status |-> Ok]
     ELSE [self |-> [self EXCEPT !.arrays =
                       Some([Val(@) EXCEPT !.frame_of_reference_delta = zeros])],
           printed |-> "WARNING: y_BFoR not recognized, using the default value: y_BFoR = y_AFoR",
           status |-> IF num_elem > 0 /\ num_node_elem > 0
                      THEN Raise("UnboundLocalError", 310)
                      ELSE Ok]

\* algebra.rotation_matrix_around_axis(axis, angle) for a unit axis and an
\* angle of q quarter turns: cos * I + sin * [axis]x + (1 - cos) * axis axis^T.
rotation_matrix_around_axis(axis, q) ==
  LET cos == <<1, 0, 0 - 1, 0>>[(q % 4) + 1]
      sin == <<0, 1, 0, 0 - 1>>[(q % 4) + 1]
      K == << <<0, 0 - axis[3], axis[2]>>,
              <<axis[3], 0, 0 - axis[1]>>,
              <<0 - axis[2], axis[1], 0>> >>
  IN [i \in 1..3 |->
        [j \in 1..3 |-> (IF i = j THEN cos ELSE 0) + sin * K[i][j]
                           + (1 - cos) * axis[i] * axis[j]]]

\* np.dot(rot, v) for a 3x3 matrix and a vector of 3
Dot(rot, v) ==
  [i \in 1..3 |-> rot[i][1] * v[1] + rot[i][2] * v[2] + rot[i][3] * v[3]]

\* rotate_around_origin as it would be if the loop of lines 401-404 were
\* left out
rotate_coordinates_only(s, axis, q) ==
  LET rot == rotation_matrix_around_axis(axis, q)
  IN [s EXCEPT !.coordinates = [i \in 1..Len(@) |-> Dot(rot, @[i])]]

\* StructuralInformation.rotate_around_origin (lines 398-404) on the arrays
\* of a structure
rotate_around_origin(s, axis, q) ==
  LET rot == rotation_matrix_around_axis(axis, q)
  IN [s EXCEPT
        !.coordinates = [i \in 1..Len(@) |-> Dot(rot, @[i])],
        !.frame_of_reference_delta =
           [ielem \in 1..s.num_elem |->
              [inode \in 1..s.num_node_elem |-> Dot(rot, @[ielem][inode])]]]

\* ------------------------------------------------------ the built inputs
\* n equally spaced node positions from start in steps of dir (the linspace
\* positions of generate_cases_test.py lines 33-34 and 69-71)
Line(start, dir, n) ==
  [i \in 1..n |-> <<start[1] + (i - 1) * dir[1], start[2] + (i - 1) * dir[2],
                    start[3] + (i - 1) * dir[3]>>]

\* a beam of e elements from the origin along z
beam_z(e) ==
  generate_uniform_beam(Line(<<0, 0, 0>>, <<0, 0, 1>>, 2 * e + 1), 1, 1, 3,
                        "y_AFoR", 0)

\* a beam along x whose first node is the last node (0,0,2) of beam_z(1),
\* with a lumped mass at its node 0
beam_x ==
  set_lumped_mass(generate_uniform_beam(Line(<<0, 0, 2>>, <<1, 0, 0>>, 3), 2, 2,
                                        3, "y_AFoR", 1), 0, 5, 1)

\* a beam away from the others, with a lumped mass at its last node
beam_far ==
  set_lumped_mass(generate_uniform_beam(Line(<<5, 0, 0>>, <<0, 0, 1>>, 3), 3, 3,
                                        3, "z_AFoR", 1), 2, 7, 2)

\* a beam besides the others, without lumped mass
beam_side ==
  generate_uniform_beam(Line(<<0, 3, 0>>, <<0, 0, 1>>, 3), 4, 4, 3, "x_AFoR", 0)

\* a beam along z of nodes two apart, the node (0,0,2) at which beam_x
\* starts lying between its first two
beam_wide ==
  generate_uniform_beam(Line(<<0, 0, 1>>, <<0, 0, 2>>, 3), 5, 5, 3, "y_AFoR", 0)

\* a structure of two-noded elements as set_to_zero leaves it
flat2 == set_to_zero(2, 3, 2, 1, 1, 0)

\* generate_full_structure with an applied-forces array of 5 columns
forces5 == [beam_side EXCEPT !.app_forces = Fill2(3, 5, 0)]

\* generate_full_structure with connectivities and property references as
\* the caller gives them: node 3 of a 3-node beam, stiffness 1 and mass 1 of
\* databases of one matrix
beam_loose ==
  [beam_side EXCEPT !.connectivities = << <<0, 2, 3>> >>,
                    !.elem_stiffness = <<1>>,
                    !.elem_mass = <<1>>]

\* the aerodynamics set_to_zero gives for a structure
zero_aero(s, npc) ==
  aero_set_to_zero(s.num_node_elem, s.num_node, s.num_elem, 1, npc)

\* generate_full_aerodynamics: one surface of 4 chordwise panels holding
\* every element, every node aerodynamic, unit chord
surface_aero(s, npc) ==
  [zero_aero(s, npc) EXCEPT
     !.aero_node = Fill1(s.num_node, TRUE),
     !.chord = Fill2(s.num_elem, s.num_node_elem, 1),
     !.surface_m = <<4>>,
     !.surface_distribution = Fill1(s.num_elem, 0)]

\* generate_full_aerodynamics with the airfoil and surface indices as the
\* caller gives them: airfoil 1 of a library of one airfoil, surface 2 of
\* one surface
loose_aero(s, npc) ==
  [surface_aero(s, npc) EXCEPT
     !.airfoil_distribution = Fill2(s.num_elem, s.num_node_elem, 1),
     !.surface_distribution = Fill1(s.num_elem, 2)]

\* an AeroelasticInformation of a structure and its aerodynamics
AEI(s, a) == [StructuralInformation |-> s, AerodynamicInformation |-> a]

Library ==
  {AEI(beam_z(e), declare_aero_attributes(zero_aero(beam_z(e), 2))) :
      e \in 1..MaxElem}
  \cup
  { AEI(beam_z(1), zero_aero(beam_z(1), 2)),
    AEI(beam_x, declare_aero_attributes(surface_aero(beam_x, 2))),
    AEI(beam_far, declare_aero_attributes(zero_aero(beam_far, 2))),
    AEI(beam_side,
        declare_aero_attributes([zero_aero(beam_side, 2)
                                   EXCEPT !.m_distribution = "1-cos"])),
    AEI(beam_side, declare_aero_attributes(zero_aero(beam_side, 3))),
    AEI(flat2, declare_aero_attributes(zero_aero(flat2, 2))),
    AEI(forces5, declare_aero_attributes(zero_aero(forces5, 2))),
    AEI(beam_loose, declare_aero_attributes(loose_aero(beam_loose, 2))),
    AEI(beam_wide, declare_aero_attributes(zero_aero(beam_wide, 2))) }

\* the argument lists of one assembly call
ArgLists == UNION {[1..n -> Library] : n \in 1..MaxArgs}

\* --------------------------------------------------------- the life of a case
VARIABLES
  case,   \* the owner AeroelasticInformation
  pc,     \* "built", "assembled", "scanning", "deduplicated", "checked_structure", "checked"
  merge,  \* the assembly call: its arguments, the case before it, its outcome
  rdp,    \* the remove_duplicated_points call: arguments, loop index, outcome
  checks, \* the outcome of each validator
  build   \* a StructuralInformation in the hands of its builders

vars == <<case, pc, merge, rdp, checks, build>>

SI == case.StructuralInformation
AI == case.AerodynamicInformation

\* build outside the builders
NotBuilding ==
  [self |-> new_StructuralInformation, before |-> new_StructuralInformation,
   op |-> "none", status |-> NotRun, printed |-> "", calls |-> 0,
   axis |-> <<0, 0, 0>>, angle |-> 0, y_BFoR |-> "", chord |-> 0]

Init ==
  /\ case \in Library
  /\ pc = "built"
  /\ merge = [args |-> <<>>, before |-> case, structures |-> NotRun,
              aerodynamics |-> NotRun, failed_at |-> 0]
  /\ rdp = [tol |-> 0, num_nodes |-> Absent, inode |-> 0, iprev_node |-> 0 - 1,
            passes |-> 0, before |-> case, status |-> NotRun]
  /\ checks = [structure |-> NotRun, aerodynamics |-> NotRun]
  /\ build = NotBuilding

\* beam1.assembly(beam2, ...) (generate_cases_test.py line 94)
Assembly(args) ==
  /\ pc = "built"
  /\ \E r \in {assembly(case, args)} :
        /\ case' = AEI(r.StructuralInformation, r.AerodynamicInformation)
        /\ merge' = [args |-> args, before |-> case,
                     structures |-> r.structures,
                     aerodynamics |-> r.aerodynamics,
                     failed_at |-> r.failed_at]
  /\ pc' = "assembled"
  /\ UNCHANGED <<rdp, checks, build>>

\* the merge raised: the exception leaves the case to its validators only
MergeRaised ==
  ~(merge.structures.kind \in {"ok", "not run"}
    /\ merge.aerodynamics.kind \in {"ok", "not run"})

\* beam1.remove_duplicated_points(tol) up to the while loop (line 1050);
\* num_nodes is the attribute of the StructuralInformation at the call: not
\* there, or assigned by the caller from num_node.
RemoveDuplicatedPoints(tol, num_nodes) ==
  /\ pc \in {"built", "assembled"}
  /\ ~MergeRaised
  /\ rdp' = [tol |-> tol, num_nodes |-> num_nodes, inode |-> 1,
             iprev_node |-> 0 - 1, passes |-> 0, before |-> case, status |-> Ok]
  /\ pc' = "scanning"
  /\ UNCHANGED <<case, merge, checks, build>>

\* one pass of the while loop of remove_duplicated_points
ScanNode ==
  /\ pc = "scanning"
  /\ rdp.passes <= Shape0(SI.coordinates)
  /\ \E r \in {scan_node(case, rdp.num_nodes, rdp.inode, rdp.tol)} :
        /\ case' = r.self
        /\ rdp' = [rdp EXCEPT !.inode = r.inode, !.status = r.status,
                              !.iprev_node = r.iprev_node,
                              !.passes = IF r.running THEN @ + 1 ELSE @]
        /\ pc' = IF r.running THEN "scanning" ELSE "deduplicated"
  /\ UNCHANGED <<merge, checks, build>>

\* beam1.StructuralInformation.check_StructuralInformation()
CheckStructuralInformation ==
  /\ pc \in {"built", "assembled", "deduplicated"}
  /\ checks' = [checks EXCEPT !.structure = check_StructuralInformation(SI)]
  /\ pc' = "checked_structure"
  /\ UNCHANGED <<case, merge, rdp, build>>

\* beam1.AerodynamicInformation.check_AerodynamicInformation(
\*     beam1.StructuralInformation)
CheckAerodynamicInformation ==
  /\ pc = "checked_structure"
  /\ checks' = [checks EXCEPT
                  !.aerodynamics = check_AerodynamicInformation(AI, SI)]
  /\ pc' = "checked"
  /\ UNCHANGED <<case, merge, rdp, build>>

Next ==
  \/ \E args \in ArgLists : Assembly(args)
  \/ \E tol \in 0..MaxTol, num_nodes \in {Absent, Some(SI.num_node)} :
       RemoveDuplicatedPoints(tol, num_nodes)
  \/ ScanNode
  \/ CheckStructuralInformation
  \/ CheckAerodynamicInformation

Spec == Init /\ [][Next]_vars

\* ------------------------------------- the life of a StructuralInformation
\* the unit axes given to rotate_around_origin
Axes == {<<1, 0, 0>>, <<0, 1, 0>>, <<0, 0, 1>>}

BuildInit ==
  /\ case = AEI(beam_z(1), zero_aero(beam_z(1), 2))
  /\ pc = "building"
  /\ merge = [args |-> <<>>, before |-> case, structures |-> NotRun,
              aerodynamics |-> NotRun, failed_at |-> 0]
  /\ rdp = [tol |-> 0, num_nodes |-> Absent, inode |-> 0, iprev_node |-> 0 - 1,
            passes |-> 0, before |-> case, status |-> NotRun]
  /\ checks = [structure |-> NotRun, aerodynamics |-> NotRun]
  /\ build = [NotBuilding EXCEPT !.status = Ok]

\* a builder may be called: no call of the build has raised
CanBuild == IsOk(build.status) /\ build.calls < MaxCalls

\* beam1.StructuralInformation.num_node = ...; .num_node_elem = ...
\* (generate_cases_test.py lines 29-30)
AssignCounts(num_node, num_node_elem) ==
  /\ CanBuild
  /\ build' = [build EXCEPT
                 !.before = build.self,
                 !.self = [@ EXCEPT !.num_node = Some(num_node),
                                    !.num_node_elem = Some(num_node_elem)],
                 !.op = "assign counts", !.printed = "", !.calls = @ + 1]
  /\ UNCHANGED <<case, pc, merge, rdp, checks>>

\* beam1.StructuralInformation.compute_basic_num_elem()
\* (generate_cases_test.py line 31)
ComputeBasicNumElem ==
  /\ CanBuild
  /\ IsSet(build.self.num_node) /\ IsSet(build.self.num_node_elem)
  /\ \E r \in {num_elem_of(build.self)} :
        build' = [build EXCEPT !.before = build.self, !.self = r.self,
                               !.op = "compute_basic_num_elem",
                               !.status = r.status, !.printed = r.printed,
                               !.calls = @ + 1]
  /\ UNCHANGED <<case, pc, merge, rdp, checks>>

\* beam.generate_uniform_beam(node_pos, ..., num_node_elem, y_BFoR) for
\* num_node positions along z (generate_cases_test.py lines 33-35)
GenerateUniformBeam(num_node, num_node_elem) ==
  /\ CanBuild
  /\ \E r \in {generate_uniform_beam_on(
                   build.self, Line(<<0, 0, 0>>, <<0, 0, 1>>, num_node),
                   num_node_elem, "y_AFoR")} :
        build' = [build EXCEPT !.before = build.self, !.self = r.self,
                               !.op = "generate_uniform_beam",
                               !.status = r.status, !.printed = r.printed,
                               !.calls = @ + 1]
  /\ UNCHANGED <<case, pc, merge, rdp, checks>>

\* beam2.StructuralInformation.rotate_around_origin(axis, angle)
\* (generate_cases_test.py line 45)
RotateAroundOrigin(axis, q) ==
  /\ CanBuild
  /\ IsSet(build.self.arrays)
  /\ build' = [build EXCEPT
                 !.before = build.self,
                 !.self.arrays =
                    Some(rotate_around_origin(Val(build.self.arrays), axis, q)),
                 !.op = "rotate_around_origin", !.printed = "",
                 !.axis = axis, !.angle = q, !.calls = @ + 1]
  /\ UNCHANGED <<case, pc, merge, rdp, checks>>

\* the keywords given to create_frame_of_reference_delta: the three of
\* lines 299-304 and another
Keywords == {"x_AFoR", "y_AFoR", "z_AFoR", "w_AFoR"}

\* beam.create_frame_of_reference_delta(y_BFoR) on a generated beam
CreateFrameOfReferenceDelta(y_BFoR) ==
  /\ CanBuild
  /\ IsSet(build.self.arrays)
  /\ IsSet(build.self.num_elem) /\ IsSet(build.self.num_node_elem)
  /\ \E r \in {create_frame_of_reference_delta_on(build.self, y_BFoR)} :
        build' = [build EXCEPT !.before = build.self, !.self = r.self,
                               !.op = "create_frame_of_reference_delta",
                               !.status = r.status, !.printed = r.printed,
                               !.y_BFoR = y_BFoR, !.calls = @ + 1]
  /\ UNCHANGED <<case, pc, merge, rdp, checks>>

\* beam2.AerodynamicInformation.create_one_uniform_aerodynamics(
\*     beam2.StructuralInformation, chord, twist = 0, sweep = 0, ...,
\*     elastic_axis = 1) (generate_cases_test.py lines 50-59), the
\* AerodynamicInformation being that of case
CreateOneUniformAerodynamics(chord) ==
  /\ CanBuild
  /\ IsSet(build.self.num_node) /\ IsSet(build.self.num_node_elem)
  /\ IsSet(build.self.num_elem)
  /\ \E r \in {create_one_uniform_aerodynamics(
                   AI, Val(build.self.num_node), Val(build.self.num_node_elem),
                   Val(build.self.num_elem), chord, 0, 0, "uniform", 1)} :
        /\ case' = [case EXCEPT !.AerodynamicInformation = r.self]
        /\ build' = [build EXCEPT !.before = build.self,
                                  !.op = "create_one_uniform_aerodynamics",
                                  !.status = r.status, !.printed = "",
                                  !.chord = chord, !.calls = @ + 1]
  /\ UNCHANGED <<pc, merge, rdp, checks>>

BuildNext ==
  \/ \E num_node \in 1..MaxNode, num_node_elem \in 2..MaxNodeElem :
       AssignCounts(num_node, num_node_elem)
  \/ ComputeBasicNumElem
  \/ \E num_node \in 1..MaxNode, num_node_elem \in 2..MaxNodeElem :
       GenerateUniformBeam(num_node, num_node_elem)
  \/ \E axis \in Axes, q \in 0..MaxQuarter : RotateAroundOrigin(axis, q)
  \/ \E y_BFoR \in Keywords : CreateFrameOfReferenceDelta(y_BFoR)
  \/ \E chord \in 1..MaxChord : CreateOneUniformAerodynamics(chord)

BuildSpec == BuildInit /\ [][BuildNext]_vars

\* ------------------------------------------------------------- the claims
RECURSIVE SumOf(_)
SumOf(a) == IF Len(a) = 0 THEN 0 ELSE Head(a) + SumOf(Tail(a))

\* the owner and the inputs of the assembly call
OwnerBefore == merge.before.StructuralInformation
Inputs == list_of_SI(merge.args)
AeroBefore == merge.before.AerodynamicInformation
AeroInputs == list_of_AI(merge.args)

\* the structural merge of the assembly call returned
StructuresMerged == IsOk(merge.structures)

\* C1: after assembly_structures returns, num_node is the sum of the
\* num_node of the owner and of every input, num_elem the sum of their
\* num_elem, and coordinates / connectivities have that many rows; nodes
\* with the same coordinates are all kept.
C1_MergeIsAdditive ==
  StructuresMerged =>
    /\ SI.num_node =
         OwnerBefore.num_node
           + SumOf([k \in 1..Len(Inputs) |-> Inputs[k].num_node])
    /\ SI.num_elem =
         OwnerBefore.num_elem
           + SumOf([k \in 1..Len(Inputs) |-> Inputs[k].num_elem])
    /\ Shape0(SI.coordinates) = SI.num_node
    /\ Shape0(SI.connectivities) = SI.num_elem

\* two nodes of the mesh have the same coordinates
HasCoincidentNodes(coordinates) ==
  \E i, j \in 1..Len(coordinates) : i < j /\ coordinates[i] = coordinates[j]

\* C1 witness: a merge of the owner with two inputs returned, and the merged
\* mesh holds nodes of different structures at the same coordinates.
C1_Witness ==
  /\ pc = "assembled"
  /\ StructuresMerged
  /\ Len(merge.args) = 2
  /\ ~HasCoincidentNodes(OwnerBefore.coordinates)
  /\ HasCoincidentNodes(SI.coordinates)

\* every index of the structure designates a row of the array it indexes
InBounds(s) ==
  /\ \A e \in 1..Len(s.connectivities) : \A j \in 1..Len(s.connectivities[e]) :
        s.connectivities[e][j] \in 0..(s.num_node - 1)
  /\ IsSet(s.lumped_mass_nodes) =>
        \A m \in 1..Len(Val(s.lumped_mass_nodes)) :
           Val(s.lumped_mass_nodes)[m] \in 0..(s.num_node - 1)
  /\ \A e \in 1..Len(s.elem_stiffness) :
        s.elem_stiffness[e] \in 0..(Shape0(s.stiffness_db) - 1)
  /\ \A e \in 1..Len(s.elem_mass) :
        s.elem_mass[e] \in 0..(Shape0(s.mass_db) - 1)

\* C2: after a merge of structures that are each in bounds, every
\* connectivity entry and lumped-mass node lies in [0, num_node), every
\* elem_stiffness entry in [0, rows of stiffness_db) and every elem_mass entry
\* in [0, rows of mass_db).
C2_MergedReferencesInBounds ==
  ( /\ StructuresMerged
    /\ InBounds(OwnerBefore)
    /\ \A k \in 1..Len(Inputs) : InBounds(Inputs[k]) )
  => InBounds(SI)

\* C2 witness: a merge returned in which connectivities, property references
\* and lumped-mass nodes were all renumbered.
C2_Witness ==
  /\ pc = "assembled"
  /\ StructuresMerged
  /\ Len(merge.args) = 1
  /\ IsSet(SI.lumped_mass_nodes)
  /\ Len(Val(SI.lumped_mass_nodes)) = 2
  /\ Val(SI.lumped_mass_nodes)[2] >= OwnerBefore.num_node
  /\ SI.elem_stiffness[Len(SI.elem_stiffness)] > 0

\* the case as remove_duplicated_points found it
RdpBefore == rdp.before.StructuralInformation

\* the pairs (i, j), i < j, of 0-based node indices at the same coordinates
CoincidentPairs(coordinates) ==
  {p \in (0..(Len(coordinates) - 1)) \X (0..(Len(coordinates) - 1)) :
     p[1] < p[2] /\ coordinates[p[1] + 1] = coordinates[p[2] + 1]}

\* C3: when two merged beams have exactly one pair of coincident nodes and
\* remove_duplicated_points ran with a positive tolerance, num_node is one
\* less than before and every connectivity entry that referenced the removed
\* (later) node equals the index of the earlier node of the pair.
C3_CollapseRemovesOneNode ==
  ( /\ pc = "deduplicated"
    /\ rdp.tol > 0
    /\ StructuresMerged
    /\ Len(merge.args) = 1
    /\ Cardinality(CoincidentPairs(RdpBefore.coordinates)) = 1 )
  => \A p \in CoincidentPairs(RdpBefore.coordinates) :
        /\ SI.num_node = RdpBefore.num_node - 1
        /\ \A e \in 1..Len(RdpBefore.connectivities) :
             \A j \in 1..Len(RdpBefore.connectivities[e]) :
                RdpBefore.connectivities[e][j] = p[2]
                  => SI.connectivities[e][j] = p[1]

\* C4: remove_duplicated_points with tolerance 0 on a mesh without coincident
\* nodes leaves num_node, num_elem and every array of the case as they were:
\* the scan never enters the replace branch, and with num_nodes assigned it
\* runs over every node and returns.
C4_ZeroToleranceIsNoOp ==
  ( /\ rdp.status # NotRun
    /\ rdp.tol = 0
    /\ ~HasCoincidentNodes(RdpBefore.coordinates) )
  => /\ case = rdp.before
     /\ rdp.status \in {Ok, Raise("AttributeError", 1051)}
     /\ (pc = "deduplicated" /\ IsSet(rdp.num_nodes))
          => (IsOk(rdp.status) /\ rdp.inode = RdpBefore.num_node)

\* C4 witness: the scan with tolerance 0 ran over every node of a merged
\* mesh without coincident nodes and returned.
C4_Witness ==
  /\ pc = "deduplicated"
  /\ rdp.tol = 0
  /\ IsSet(rdp.num_nodes)
  /\ IsOk(rdp.status)
  /\ StructuresMerged
  /\ Len(merge.args) >= 1
  /\ ~HasCoincidentNodes(RdpBefore.coordinates)
  /\ rdp.inode = SI.num_node

\* the pass of the while loop about to run finds node inode close to an
\* earlier node
DuplicateDetected ==
  /\ pc = "scanning"
  /\ IsSet(rdp.num_nodes)
  /\ rdp.inode < Val(rdp.num_nodes)
  /\ rdp.inode < Shape0(SI.coordinates)
  /\ first_close(SI.coordinates, rdp.inode, rdp.tol) >= 0

\* C5: after each detected duplicate the scan of remove_duplicated_points
\* makes progress: the node set shrinks or the scan index advances.
C5_ScanMakesProgress ==
  [][DuplicateDetected =>
       \/ Shape0(case'.StructuralInformation.coordinates) < Shape0(SI.coordinates)
       \/ rdp'.inode > rdp.inode]_vars

\* the owner and the inputs of the assembly call agree on what the merge
\* requires of them: nodes per element, distribution law, camber points and
\* six applied-force components
CompatibleInputs ==
  /\ Shape1(OwnerBefore.app_forces) = 6
  /\ \A k \in 1..Len(merge.args) :
        /\ Inputs[k].num_node_elem = OwnerBefore.num_node_elem
        /\ Shape1(Inputs[k].app_forces) = 6
        /\ AeroInputs[k].m_distribution = AeroBefore.m_distribution
        /\ Shape1(AeroInputs[k].airfoils) = Shape1(AeroBefore.airfoils)

\* C6: a case built by the builders, merged by assembly and passed to
\* remove_duplicated_points (as far as the calls return) is accepted by
\* check_StructuralInformation and by check_AerodynamicInformation.
C6_AssembledCaseIsAccepted ==
  ( /\ pc = "checked"
    /\ merge.structures # NotRun
    /\ CompatibleInputs
    /\ (MergeRaised \/ rdp.status # NotRun) )
  => (IsOk(checks.structure) /\ IsOk(checks.aerodynamics))

\* the positions in args of the structures whose num_node_elem is not the
\* owner's
NodesPerElemMismatches ==
  {k \in 1..Len(Inputs) : Inputs[k].num_node_elem # OwnerBefore.num_node_elem}

\* C7: a structural merge in which some input has a num_node_elem different
\* from the owner's raises: at that input at the latest, and at that input
\* with the shape error of line 516 or the assertion of line 517.
C7_NodesPerElemMismatchFails ==
  (merge.structures # NotRun /\ NodesPerElemMismatches # {}) =>
    LET k0 == CHOOSE k \in NodesPerElemMismatches :
                 \A m \in NodesPerElemMismatches : k <= m
    IN /\ ~IsOk(merge.structures)
       /\ merge.failed_at \in 1..k0
       /\ merge.failed_at = k0 =>
            merge.structures \in {Raise("ValueError", 516),
                                  Raise("AssertionError", 517)}

\* C7 witness: the second input of a merge has another num_node_elem and
\* the merge raised at it.
C7_Witness ==
  /\ pc = "assembled"
  /\ Len(merge.args) = 2
  /\ NodesPerElemMismatches = {2}
  /\ merge.failed_at = 2
  /\ merge.structures = Raise("ValueError", 516)

\* the merge raised on a num_node_elem or a distribution-law mismatch
MismatchFailure ==
  \/ merge.structures \in {Raise("ValueError", 516), Raise("AssertionError", 517)}
  \/ merge.aerodynamics = Raise("AssertionError", 846)

\* C8: when a merge fails on a num_node_elem or distribution-law mismatch the
\* owner holds no array extended with part of the failing input while the
\* other arrays and num_node / num_elem are not.
C8_FailedMergeLeavesNoPartialCase ==
  MismatchFailure =>
    /\ Shape0(SI.coordinates) = SI.num_node
    /\ Shape0(SI.connectivities) = SI.num_elem
    /\ Shape0(AI.chord) = SI.num_elem
    /\ Shape0(AI.chord) = Shape0(AI.elastic_axis)
    /\ Shape0(AI.surface_distribution) = Shape0(AI.chord)

\* the positions in args of the aerodynamics whose m_distribution is not
\* the owner's
LawMismatches ==
  {k \in 1..Len(AeroInputs) :
     AeroInputs[k].m_distribution # AeroBefore.m_distribution}

\* C9: an aerodynamic merge in which some input's m_distribution differs
\* from the owner's raises (at that input through the assertion of line 846,
\* unless an attribute is missing); after a merge that returned the case
\* carries one m_distribution, that of every input.
C9_DistributionLawMismatchFails ==
  merge.aerodynamics # NotRun =>
    /\ LawMismatches # {} =>
         LET k0 == CHOOSE k \in LawMismatches : \A m \in LawMismatches : k <= m
         IN /\ ~IsOk(merge.aerodynamics)
            /\ merge.failed_at <= k0
            /\ (merge.failed_at = k0
                  /\ merge.aerodynamics.kind # "AttributeError")
                 => merge.aerodynamics = Raise("AssertionError", 846)
    /\ IsOk(merge.aerodynamics) =>
         /\ AI.m_distribution = AeroBefore.m_distribution
         /\ \A k \in 1..Len(AeroInputs) :
               AeroInputs[k].m_distribution = AI.m_distribution

\* C9 witness: an aerodynamic merge met an input of another law and raised
\* the assertion of line 846.
C9_Witness ==
  /\ pc = "assembled"
  /\ LawMismatches # {}
  /\ merge.aerodynamics = Raise("AssertionError", 846)

\* every shape check_StructuralInformation tests before the width of
\* app_forces agrees with num_node, num_elem and num_node_elem
OtherShapesAgree(s) ==
  /\ Shape0(s.elem_stiffness) = s.num_elem
  /\ Shape0(s.elem_mass) = s.num_elem
  /\ Shape0(s.frame_of_reference_delta) = s.num_elem
  /\ Shape1(s.frame_of_reference_delta) = s.num_node_elem
  /\ Shape0(s.structural_twist) = s.num_node
  /\ Shape0(s.boundary_conditions) = s.num_node
  /\ Shape0(s.beam_number) = s.num_elem
  /\ Shape0(s.app_forces) = s.num_node

StructuralIndicesInBounds(s) ==
  /\ \A e \in 1..Len(s.connectivities) : \A j \in 1..Len(s.connectivities[e]) :
        s.connectivities[e][j] \in 0..(s.num_node - 1)
  /\ \A e \in 1..Len(s.elem_stiffness) :
        s.elem_stiffness[e] \in 0..(Shape0(s.stiffness_db) - 1)
  /\ \A e \in 1..Len(s.elem_mass) :
        s.elem_mass[e] \in 0..(Shape0(s.mass_db) - 1)

\* every airfoil index designates an airfoil of the library and every
\* surface-membership value is -1 or a surface
AerodynamicIndicesInBounds(a) ==
  /\ \A e \in 1..Len(a.airfoil_distribution) :
        \A j \in 1..Len(a.airfoil_distribution[e]) :
           a.airfoil_distribution[e][j] \in 0..(Shape0(a.airfoils) - 1)
  /\ \A e \in 1..Len(a.surface_distribution) :
        a.surface_distribution[e] \in (0 - 1)..(Shape0(a.surface_m) - 1)

\* C11: the validators check index bounds: a case with a connectivity entry,
\* a stiffness / mass reference, an airfoil index or a surface-membership
\* value out of bounds is rejected by check_StructuralInformation /
\* check_AerodynamicInformation.
C11_ValidatorsCheckIndexBounds ==
  /\ (checks.structure # NotRun /\ ~StructuralIndicesInBounds(SI))
       => ~IsOk(checks.structure)
  /\ (checks.aerodynamics # NotRun /\ ~AerodynamicIndicesInBounds(AI))
       => ~IsOk(checks.aerodynamics)

\* (num_node - 1) is a multiple of (num_node_elem - 1)
Divisible(s) == (Val(s.num_node) - 1) % (Val(s.num_node_elem) - 1) = 0

\* C12: for num_node >= 1 and num_node_elem >= 2 with (num_node - 1)
\* divisible by (num_node_elem - 1), compute_basic_num_elem sets num_elem to
\* exactly (num_node - 1) / (num_node_elem - 1).
C12_ElementCountIsTheQuotient ==
  (build.op = "compute_basic_num_elem" /\ Divisible(build.before)) =>
    /\ IsOk(build.status)
    /\ build.self.num_node = build.before.num_node
    /\ build.self.num_node_elem = build.before.num_node_elem
    /\ IsSet(build.self.num_elem)
    /\ Val(build.self.num_elem) * (Val(build.self.num_node_elem) - 1)
         = Val(build.self.num_node) - 1

\* C12 witness: compute_basic_num_elem ran for 5 nodes of 3-noded elements
\* and set num_elem to 2.
C12_Witness ==
  /\ build.op = "compute_basic_num_elem"
  /\ build.before.num_node = Some(5)
  /\ build.before.num_node_elem = Some(3)
  /\ build.self.num_elem = Some(2)

\* C13: when (num_node - 1) is not divisible by (num_node_elem - 1),
\* compute_basic_num_elem fails, and a build that calls it does not go on
\* with a num_elem (a stale one in particular): no array is made.
C13_IndivisibleCountFails ==
  ( /\ build.op \in {"compute_basic_num_elem", "generate_uniform_beam"}
    /\ ~Divisible(build.self) )
  => /\ ~IsOk(build.status)
     /\ build.self.arrays = build.before.arrays

\* C14: rotate_around_origin applies one rotation matrix to every node
\* coordinate and to every frame_of_reference_delta vector; a quarter turn
\* about y takes a node at (0,0,L) to (L,0,0) and leaves a
\* frame_of_reference_delta of (0,1,0) as it is.
C14_RotationOfCoordinatesAndFrames ==
  build.op = "rotate_around_origin" =>
    LET rot == rotation_matrix_around_axis(build.axis, build.angle)
        old == Val(build.before.arrays)
        new == Val(build.self.arrays)
        quarter_y == build.axis = <<0, 1, 0>> /\ build.angle = 1
    IN /\ Len(new.coordinates) = Len(old.coordinates)
       /\ \A i \in 1..Len(old.coordinates) :
             /\ new.coordinates[i] = Dot(rot, old.coordinates[i])
             /\ (quarter_y /\ old.coordinates[i][1] = 0
                   /\ old.coordinates[i][2] = 0)
                  => new.coordinates[i] = <<old.coordinates[i][3], 0, 0>>
       /\ Len(new.frame_of_reference_delta) = Len(old.frame_of_reference_delta)
       /\ \A e \in 1..Len(old.frame_of_reference_delta) :
             \A j \in 1..Len(old.frame_of_reference_delta[e]) :
                /\ new.frame_of_reference_delta[e][j]
                     = Dot(rot, old.frame_of_reference_delta[e][j])
                /\ (quarter_y /\ old.frame_of_reference_delta[e][j] = <<0, 1, 0>>)
                     => new.frame_of_reference_delta[e][j] = <<0, 1, 0>>

\* C14 witness: a quarter turn about y was applied to a beam along z with
\* frames (0,1,0): its node (0,0,2) is at (2,0,0).
C14_Witness ==
  /\ build.op = "rotate_around_origin"
  /\ build.axis = <<0, 1, 0>>
  /\ build.angle = 1
  /\ Len(Val(build.before.arrays).coordinates) >= 3
  /\ Val(build.before.arrays).coordinates[3] = <<0, 0, 2>>
  /\ Val(build.self.arrays).coordinates[3] = <<2, 0, 0>>
  /\ Len(Val(build.self.arrays).frame_of_reference_delta) >= 1
  /\ Val(build.before.arrays).frame_of_reference_delta[1][1] = <<0, 1, 0>>

\* what the owner and the inputs before the k-th hold: nodes, elements,
\* stiffness matrices, mass matrices
NodesBefore(k) ==
  OwnerBefore.num_node
    + (IF k = 1 THEN 0 ELSE SumOf([m \in 1..(k - 1) |-> Inputs[m].num_node]))
ElemsBefore(k) ==
  OwnerBefore.num_elem
    + (IF k = 1 THEN 0 ELSE SumOf([m \in 1..(k - 1) |-> Inputs[m].num_elem]))
StiffBefore(k) ==
  Shape0(OwnerBefore.stiffness_db)
    + (IF k = 1 THEN 0
       ELSE SumOf([m \in 1..(k - 1) |-> Shape0(Inputs[m].stiffness_db)]))
MassBefore(k) ==
  Shape0(OwnerBefore.mass_db)
    + (IF k = 1 THEN 0
       ELSE SumOf([m \in 1..(k - 1) |-> Shape0(Inputs[m].mass_db)]))

\* C15: in a structural merge the owner keeps its indices; the
\* connectivities and lumped-mass nodes of the k-th input are its own plus
\* the nodes of the owner and the earlier inputs, its elem_stiffness /
\* elem_mass its own plus the stiffness / mass matrices before it; the
\* databases are joined row for row, nothing removed.
C15_MergeOffsetsAreRunningTotals ==
  StructuresMerged =>
    /\ \A e \in 1..OwnerBefore.num_elem :
          /\ SI.connectivities[e] = OwnerBefore.connectivities[e]
          /\ SI.elem_stiffness[e] = OwnerBefore.elem_stiffness[e]
          /\ SI.elem_mass[e] = OwnerBefore.elem_mass[e]
    /\ \A r \in 1..Shape0(OwnerBefore.stiffness_db) :
          SI.stiffness_db[r] = OwnerBefore.stiffness_db[r]
    /\ \A r \in 1..Shape0(OwnerBefore.mass_db) :
          SI.mass_db[r] = OwnerBefore.mass_db[r]
    /\ \A k \in 1..Len(Inputs) :
          /\ \A e \in 1..Inputs[k].num_elem :
                /\ SI.connectivities[ElemsBefore(k) + e]
                     = AddTo1(Inputs[k].connectivities[e], NodesBefore(k))
                /\ SI.elem_stiffness[ElemsBefore(k) + e]
                     = Inputs[k].elem_stiffness[e] + StiffBefore(k)
                /\ SI.elem_mass[ElemsBefore(k) + e]
                     = Inputs[k].elem_mass[e] + MassBefore(k)
          /\ \A r \in 1..Shape0(Inputs[k].stiffness_db) :
                SI.stiffness_db[StiffBefore(k) + r] = Inputs[k].stiffness_db[r]
          /\ \A r \in 1..Shape0(Inputs[k].mass_db) :
                SI.mass_db[MassBefore(k) + r] = Inputs[k].mass_db[r]
    /\ Shape0(SI.stiffness_db) = StiffBefore(Len(Inputs) + 1)
    /\ Shape0(SI.mass_db) = MassBefore(Len(Inputs) + 1)
    /\ (IsSet(OwnerBefore.lumped_mass_nodes) /\ Len(Inputs) = 1) =>
         Val(SI.lumped_mass_nodes)
           = Val(OwnerBefore.lumped_mass_nodes)
               \o AddTo1(Val(Inputs[1].lumped_mass_nodes), NodesBefore(1))

\* C15 witness: a merge of two inputs returned; the second input's
\* connectivities lie beyond the nodes of the owner and the first input and
\* the stiffness database holds the three matrices.
C15_Witness ==
  /\ pc = "assembled"
  /\ StructuresMerged
  /\ Len(merge.args) = 2
  /\ Inputs[2].num_elem >= 1
  /\ SI.connectivities[Len(SI.connectivities)][1] >= NodesBefore(2)
  /\ SI.elem_stiffness[Len(SI.elem_stiffness)] = 2
  /\ Shape0(SI.stiffness_db) = 3

\* where element e (1-based row) of the merged case comes from: 0 for the
\* owner, k for the k-th input
SourceOf(e) ==
  IF e <= OwnerBefore.num_elem THEN 0
  ELSE CHOOSE k \in 1..Len(Inputs) :
         ElemsBefore(k) < e /\ e <= ElemsBefore(k) + Inputs[k].num_elem

\* C16: in a structural merge each input's beam numbers are offset by the
\* running (max beam number + 1), so that elements coming from different
\* inputs never share a beam number.
C16_BeamNumbersAreDisjoint ==
  StructuresMerged =>
    \A e1, e2 \in 1..SI.num_elem :
       SourceOf(e1) # SourceOf(e2) => SI.beam_number[e1] # SI.beam_number[e2]

\* the airfoils and the surfaces of the owner and of the inputs before the
\* k-th, as their num_airfoils / num_surfaces give them
AirfoilsBefore(k) ==
  Val(AeroBefore.num_airfoils)
    + (IF k = 1 THEN 0
       ELSE SumOf([m \in 1..(k - 1) |-> Val(AeroInputs[m].num_airfoils)]))
SurfacesBefore(k) ==
  Val(AeroBefore.num_surfaces)
    + (IF k = 1 THEN 0
       ELSE SumOf([m \in 1..(k - 1) |-> Val(AeroInputs[m].num_surfaces)]))

\* C17: in an aerodynamic merge the airfoil indices of each input are offset
\* by the airfoils before it and its surface-membership entries by the
\* surfaces before it, airfoils and surfaces being joined whole; with inputs
\* in bounds every merged airfoil index lies in [0, airfoils) and every
\* surface-membership entry in [-1, surfaces).
C17_AeroOffsetsAreRunningTotals ==
  IsOk(merge.aerodynamics) =>
    /\ \A k \in 1..Len(AeroInputs) :
          \A e \in 1..Shape0(AeroInputs[k].airfoil_distribution) :
             /\ AI.airfoil_distribution[ElemsBefore(k) + e]
                  = AddTo1(AeroInputs[k].airfoil_distribution[e],
                           AirfoilsBefore(k))
             /\ AI.surface_distribution[ElemsBefore(k) + e]
                  = AeroInputs[k].surface_distribution[e] + SurfacesBefore(k)
    /\ \A e \in 1..Shape0(AeroBefore.airfoil_distribution) :
          /\ AI.airfoil_distribution[e] = AeroBefore.airfoil_distribution[e]
          /\ AI.surface_distribution[e] = AeroBefore.surface_distribution[e]
    /\ Shape0(AI.airfoils) = AirfoilsBefore(Len(AeroInputs) + 1)
    /\ Shape0(AI.surface_m) = SurfacesBefore(Len(AeroInputs) + 1)
    /\ AI.num_airfoils = Some(Shape0(AI.airfoils))
    /\ AI.num_surfaces = Some(Shape0(AI.surface_m))
    /\ ( /\ AerodynamicIndicesInBounds(AeroBefore)
         /\ \A k \in 1..Len(AeroInputs) :
               AerodynamicIndicesInBounds(AeroInputs[k]) )
       => AerodynamicIndicesInBounds(AI)

\* C17 witness: an owner of one surface and one airfoil took an input of one
\* surface and one airfoil: the input's elements are of surface 1 and
\* airfoil 1.
C17_Witness ==
  /\ pc = "assembled"
  /\ IsOk(merge.aerodynamics)
  /\ Len(merge.args) = 1
  /\ AeroBefore.surface_m = <<4>>
  /\ AeroInputs[1].surface_m = <<4>>
  /\ AI.surface_distribution[Len(AI.surface_distribution)] = 1
  /\ AI.airfoil_distribution[Len(AI.airfoil_distribution)][1] = 1
  /\ AerodynamicIndicesInBounds(AI)

\* C18: after the structural and the aerodynamic merge of the same list,
\* aero_node has num_node entries, chord, twist, sweep, elastic_axis and
\* airfoil_distribution have shape (num_elem, num_node_elem) and
\* surface_distribution has num_elem entries.
C18_MergedAeroShapesFollowTheStructure ==
  (IsOk(merge.structures) /\ IsOk(merge.aerodynamics)) =>
    /\ Shape0(AI.aero_node) = SI.num_node
    /\ Shape0(AI.surface_distribution) = SI.num_elem
    /\ \A a \in {AI.chord, AI.twist, AI.sweep, AI.elastic_axis,
                 AI.airfoil_distribution} :
          /\ Shape0(a) = SI.num_elem
          /\ \A e \in 1..Len(a) : Len(a[e]) = SI.num_node_elem

\* nodes i and j (0-based) of the mesh remove_duplicated_points scans are
\* within the tolerance
Within(i, j) ==
  Dist2(SI.coordinates[i + 1], SI.coordinates[j + 1]) < rdp.tol * rdp.tol

\* C19: remove_duplicated_points scans the nodes in increasing order from
\* index 1; the node it takes for a duplicate has an earlier node within the
\* tolerance and is paired with the lowest such node; node 0 and every node
\* the scan has passed stay, and no node is paired with a later one.
C19_ScanOrderAndFirstOccurrence ==
  (rdp.status # NotRun /\ IsSet(rdp.num_nodes)) =>
    /\ rdp.inode = rdp.passes + 1
    /\ \A i \in 1..(rdp.inode - 1) : \A j \in 0..(i - 1) : ~Within(i, j)
    /\ SI.coordinates = RdpBefore.coordinates
    /\ rdp.iprev_node >= 0 =>
         /\ rdp.iprev_node < rdp.inode
         /\ Within(rdp.inode, rdp.iprev_node)
         /\ \A j \in 0..(rdp.iprev_node - 1) : ~Within(rdp.inode, j)

\* C19 witness: the scan reached a node with two earlier nodes within the
\* tolerance and paired it with the first of them.
C19_Witness ==
  /\ pc = "deduplicated"
  /\ rdp.iprev_node >= 0
  /\ rdp.inode >= 3
  /\ \E j \in (rdp.iprev_node + 1)..(rdp.inode - 1) : Within(rdp.inode, j)

\* the index a reference to node n must carry once node rdp.inode has been
\* merged into node rdp.iprev_node and removed
Renumbered(n) ==
  IF n = rdp.inode THEN rdp.iprev_node
  ELSE IF n > rdp.inode THEN n - 1
  ELSE n

\* C20: when remove_duplicated_points has taken node rdp.inode for a
\* duplicate, the mesh has one node less, every connectivity entry and every
\* lumped-mass node is the renumbered entry it was before (entries above the
\* removed node one lower), and all of them lie in 0..num_node-1.
C20_ReferencesFollowTheRemoval ==
  (pc = "deduplicated" /\ rdp.iprev_node >= 0) =>
    /\ SI.num_node = RdpBefore.num_node - 1
    /\ SI.connectivities
         = [e \in 1..Len(RdpBefore.connectivities) |->
              [k \in 1..Len(RdpBefore.connectivities[e]) |->
                 Renumbered(RdpBefore.connectivities[e][k])]]
    /\ IsSet(RdpBefore.lumped_mass_nodes) =>
         /\ IsSet(SI.lumped_mass_nodes)
         /\ Val(SI.lumped_mass_nodes)
              = [m \in 1..Len(Val(RdpBefore.lumped_mass_nodes)) |->
                   Renumbered(Val(RdpBefore.lumped_mass_nodes)[m])]
         /\ \A m \in 1..Len(Val(SI.lumped_mass_nodes)) :
               Val(SI.lumped_mass_nodes)[m] \in 0..(SI.num_node - 1)
    /\ \A e \in 1..Len(SI.connectivities) :
          \A k \in 1..Len(SI.connectivities[e]) :
             SI.connectivities[e][k] \in 0..(SI.num_node - 1)

\* the 0-based indices, among the first n nodes, of the nodes that have no
\* surviving earlier node within the tolerance
RECURSIVE Survivors(_, _, _)
Survivors(coordinates, tol, n) ==
  IF n = 0 THEN {}
  ELSE LET S == Survivors(coordinates, tol, n - 1)
       IN IF \E j \in S : Dist2(coordinates[n], coordinates[j + 1]) < tol * tol
          THEN S
          ELSE S \cup {n - 1}

\* the rows of a whose 0-based index is in S, in their order
Keep(a, S) ==
  LET F[i \in 0..Len(a)] ==
        IF i = 0 THEN <<>>
        ELSE IF (i - 1) \in S THEN Append(F[i - 1], a[i]) ELSE F[i - 1]
  IN F[Len(a)]

\* the nodes of the mesh remove_duplicated_points was given that are not
\* duplicates of an earlier node
RdpSurvivors ==
  Survivors(RdpBefore.coordinates, rdp.tol, Len(RdpBefore.coordinates))

\* C21: after remove_duplicated_points every per-node array (coordinates,
\* structural_twist, boundary_conditions, app_forces, aero_node) holds the
\* rows of the nodes that are no duplicates, in their order, and has num_node
\* rows.
C21_PerNodeRowsAreRemoved ==
  (pc = "deduplicated" /\ IsSet(rdp.num_nodes)) =>
    /\ SI.coordinates = Keep(RdpBefore.coordinates, RdpSurvivors)
    /\ SI.structural_twist = Keep(RdpBefore.structural_twist, RdpSurvivors)
    /\ SI.boundary_conditions = Keep(RdpBefore.boundary_conditions, RdpSurvivors)
    /\ SI.app_forces = Keep(RdpBefore.app_forces, RdpSurvivors)
    /\ AI.aero_node
         = Keep(rdp.before.AerodynamicInformation.aero_node, RdpSurvivors)
    /\ Len(SI.coordinates) = SI.num_node
    /\ Len(SI.structural_twist) = SI.num_node
    /\ Len(SI.boundary_conditions) = SI.num_node
    /\ Len(SI.app_forces) = SI.num_node
    /\ Len(AI.aero_node) = SI.num_node

\* the (element, slot) pairs, 1-based, whose connectivity entry was node n
\* when remove_duplicated_points was called
SlotsOf(n) ==
  {s \in (1..Len(RdpBefore.connectivities)) \X (1..RdpBefore.num_node_elem) :
     RdpBefore.connectivities[s[1]][s[2]] = n}

\* C22: when remove_duplicated_points has taken node rdp.inode for a
\* duplicate of node rdp.iprev_node, the chord and the elastic axis at every
\* slot that referenced the duplicate are those a slot of the earlier node
\* held, so that all slots of the joint carry one value.
C22_JointSlotsShareTheAeroValue ==
  (pc = "deduplicated" /\ rdp.iprev_node >= 0
     /\ SlotsOf(rdp.iprev_node) # {}) =>
    /\ \A s \in SlotsOf(rdp.inode) : \E t \in SlotsOf(rdp.iprev_node) :
          /\ AI.chord[s[1]][s[2]]
               = rdp.before.AerodynamicInformation.chord[t[1]][t[2]]
          /\ AI.elastic_axis[s[1]][s[2]]
               = rdp.before.AerodynamicInformation.elastic_axis[t[1]][t[2]]
    /\ \A s \in SlotsOf(rdp.inode), t \in SlotsOf(rdp.iprev_node) :
          /\ AI.chord[s[1]][s[2]] = AI.chord[t[1]][t[2]]
          /\ AI.elastic_axis[s[1]][s[2]] = AI.elastic_axis[t[1]][t[2]]

\* generate_uniform_beam with num_node_elem = 3 has returned on
\* num_node = 2 * num_elem + 1 node positions
UniformBeamBuilt ==
  /\ build.op = "generate_uniform_beam"
  /\ IsOk(build.status)
  /\ build.self.num_node_elem = Some(3)
  /\ Val(build.self.num_node) = 2 * Val(build.self.num_elem) + 1

\* row i (0-based) of the connectivities of the built beam is
\* [2i, 2i+2, 2i+1], every entry is a node of the beam and consecutive
\* elements share exactly one node, the second slot of the one and the first
\* of the next
RowsAreSequential ==
  LET con == Val(build.self.arrays).connectivities
  IN /\ Len(con) = Val(build.self.num_elem)
     /\ \A i \in 1..Len(con) :
           /\ con[i] = <<2 * (i - 1), 2 * (i - 1) + 2, 2 * (i - 1) + 1>>
           /\ \A k \in 1..3 : con[i][k] \in 0..(Val(build.self.num_node) - 1)
     /\ \A i \in 1..(Len(con) - 1) :
           /\ {con[i][k] : k \in 1..3} \cap {con[i + 1][k] : k \in 1..3}
                = {con[i][2]}
           /\ con[i][2] = con[i + 1][1]

\* every node of the built beam is in the connectivities
EveryNodeReferenced ==
  LET con == Val(build.self.arrays).connectivities
  IN \A n \in 0..(Val(build.self.num_node) - 1) :
        \E i \in 1..Len(con), k \in 1..3 : con[i][k] = n

\* C23 as stated: generate_uniform_beam with 3 nodes per element on
\* 2 * num_elem + 1 node positions gives rows [2i, 2i+2, 2i+1], entries in
\* [0, num_node), consecutive elements sharing exactly one end node, and
\* every node referenced by an element.
C23_AnyUniformBeamConnectivity ==
  UniformBeamBuilt => (RowsAreSequential /\ EveryNodeReferenced)

\* C23: the same for a beam of at least one element; on a single node
\* position the beam has no element and its node is in no row.
C23_UniformBeamConnectivity ==
  UniformBeamBuilt =>
    /\ RowsAreSequential
    /\ Val(build.self.num_elem) >= 1 => EveryNodeReferenced

\* C23 witness: a beam of two elements was generated on five node positions.
C23_Witness ==
  /\ UniformBeamBuilt
  /\ Val(build.self.num_node) = 5
  /\ Val(build.self.arrays).connectivities = << <<0, 2, 1>>, <<2, 4, 3>> >>

\* the unit vector create_frame_of_reference_delta is to broadcast for a
\* keyword, local y for a keyword that is none of the three
UnitVectorOf(y_BFoR) ==
  IF y_BFoR = "x_AFoR" THEN <<1, 0, 0>>
  ELSE IF y_BFoR = "z_AFoR" THEN <<0, 0, 1>>
  ELSE <<0, 1, 0>>

\* C24: create_frame_of_reference_delta returns with every vector of
\* frame_of_reference_delta equal to the unit vector of its keyword; for a
\* keyword that is none of the three it prints a warning and every vector
\* is (0,1,0).
C24_FrameKeywordFallsBackToLocalY ==
  build.op = "create_frame_of_reference_delta" =>
    /\ IsOk(build.status)
    /\ Val(build.self.arrays).frame_of_reference_delta
         = Fill2(Val(build.self.num_elem), Val(build.self.num_node_elem),
                 UnitVectorOf(build.y_BFoR))
    /\ build.y_BFoR \notin {"x_AFoR", "y_AFoR", "z_AFoR"}
         => build.printed # ""

\* C25: check_AerodynamicInformation runs on a case only after assembly and
\* remove_duplicated_points have returned on it, and once it has accepted the
\* case no step changes num_node or num_elem.
C25_ValidationFollowsMergeAndDedup ==
  [][ /\ (checks.aerodynamics = NotRun /\ checks'.aerodynamics # NotRun) =>
           /\ IsOk(merge.structures) /\ IsOk(merge.aerodynamics)
           /\ IsOk(rdp.status)
      /\ IsOk(checks.aerodynamics) =>
           /\ case'.StructuralInformation.num_node = SI.num_node
           /\ case'.StructuralInformation.num_elem = SI.num_elem ]_vars

\* C26: create_one_uniform_aerodynamics returns with chord, twist, sweep and
\* elastic_axis of shape (num_elem, num_node_elem) filled with its scalars,
\* aero_node of num_node entries, and every airfoil_distribution entry an
\* index of the airfoils of the same AerodynamicInformation.
C26_UniformAerodynamicsAreInBounds ==
  build.op = "create_one_uniform_aerodynamics" =>
    LET num_elem == Val(build.self.num_elem)
        num_node_elem == Val(build.self.num_node_elem)
    IN /\ IsOk(build.status)
       /\ AI.chord = Fill2(num_elem, num_node_elem, build.chord)
       /\ AI.twist = Fill2(num_elem, num_node_elem, 0)
       /\ AI.sweep = Fill2(num_elem, num_node_elem, 0)
       /\ AI.elastic_axis = Fill2(num_elem, num_node_elem, 1)
       /\ Len(AI.aero_node) = Val(build.self.num_node)
       /\ \A e \in 1..Len(AI.airfoil_distribution) :
             \A k \in 1..Len(AI.airfoil_distribution[e]) :
                AI.airfoil_distribution[e][k] \in 0..(Shape0(AI.airfoils) - 1)

\* C27: an element that is of no surface (-1) in the owner or in an input of
\* an aerodynamic merge is of no surface in the merged case.
C27_NoSurfaceStaysNoSurface ==
  IsOk(merge.aerodynamics) =>
    /\ \A e \in 1..Len(AeroBefore.surface_distribution) :
          AeroBefore.surface_distribution[e] = 0 - 1
            => AI.surface_distribution[e] = 0 - 1
    /\ \A k \in 1..Len(AeroInputs) :
          \A e \in 1..Len(AeroInputs[k].surface_distribution) :
             AeroInputs[k].surface_distribution[e] = 0 - 1
               => AI.surface_distribution[ElemsBefore(k) + e] = 0 - 1

\* the rows of a lumped-mass array of a structure, none when it is None
Lumped(o) == IF IsSet(o) THEN Val(o) ELSE <<>>

\* the sequences of seqs joined in their order
RECURSIVE ConcatAll(_)
ConcatAll(seqs) ==
  IF seqs = <<>> THEN <<>> ELSE Head(seqs) \o ConcatAll(Tail(seqs))

\* C28: after a structural merge the lumped masses are those of the owner
\* followed by those of the inputs, as many as they had together, each with
\* the mass, inertia and position it had.
C28_LumpedMassesArePreserved ==
  (IsOk(merge.structures) /\ Len(merge.args) >= 1) =>
    /\ Len(Lumped(SI.lumped_mass_nodes))
         = Len(Lumped(OwnerBefore.lumped_mass_nodes))
             + SumOf([k \in 1..Len(Inputs) |->
                        Len(Lumped(Inputs[k].lumped_mass_nodes))])
    /\ Lumped(SI.lumped_mass)
         = Lumped(OwnerBefore.lumped_mass)
             \o ConcatAll([k \in 1..Len(Inputs) |-> Lumped(Inputs[k].lumped_mass)])
    /\ Lumped(SI.lumped_mass_inertia)
         = Lumped(OwnerBefore.lumped_mass_inertia)
             \o ConcatAll([k \in 1..Len(Inputs) |->
                             Lumped(Inputs[k].lumped_mass_inertia)])
    /\ Lumped(SI.lumped_mass_position)
         = Lumped(OwnerBefore.lumped_mass_position)
             \o ConcatAll([k \in 1..Len(Inputs) |->
                             Lumped(Inputs[k].lumped_mass_position)])

\* C29: a structural merge of two inputs in one call gives the case that
\* merging the first input and then, in a second call, the second input
\* gives: the same arrays, beam numbers and counts.
C29_MergeIsIndependentOfGrouping ==
  (IsOk(merge.structures) /\ Len(merge.args) = 2) =>
    \A first \in {assembly_structures(OwnerBefore, <<Inputs[1]>>)} :
       /\ IsOk(first.status)
       /\ \A second \in {assembly_structures(first.self, <<Inputs[2]>>)} :
             /\ IsOk(second.status)
             /\ second.self = SI

====
